---------------------------- MODULE Spec2Model ----------------------------
(***************************************************************************)
(* Model of openelex/us/md/transform/__init__.py: the Maryland transforms  *)
(* that turn RawResult documents into Contest, Candidate and Result        *)
(* documents in three passes.                                              *)
(*                                                                         *)
(* Text that the code takes apart (slugs, districts, office names,         *)
(* jurisdictions, person names) is a sequence of one-character strings;    *)
(* text that the code only copies or compares is a TLA+ string.  A         *)
(* reference to a stored document is its position in its collection, 0     *)
(* standing for "no document".                                             *)
(***************************************************************************)
EXTENDS Integers, Sequences, FiniteSets, TLC

VARIABLES
    raw,            \* the RawResult collection, in storage order (document ids)
    contests,       \* the Contest collection
    candidates,     \* the Candidate collection
    results,        \* the Result collection
    office_cache,   \* module-level cache: Office key -> Office
    party_cache,    \* module-level cache: party abbreviation -> Party
    pc,             \* the transform that is running, or "idle"
    todo,           \* the raw results the running transform has yet to iterate
    seen,           \* the running transform's set of seen keys
    buf,            \* the running transform's list of unsaved documents
    cache,          \* the running transform's contest_cache / candidate_cache
    num_created,    \* create_unique_results_after_2000's counter
    inserts,        \* sizes of the bulk inserts of the last started transform
    outcome,        \* how the last transform ended, and the count it printed
    warnings,       \* names the last started transform logged a warning about
    runs,           \* number of transforms started so far
    arg,            \* the argument of a function applied on its own
    ret             \* what that function returned

vars == <<raw, contests, candidates, results, office_cache, party_cache, pc,
          todo, seen, buf, cache, num_created, inserts, outcome, warnings, runs,
          arg, ret>>

---------------------------------------------------------------------------
(* Python values *)

\* None, as a value that is no text: no text holds this element.
None == <<"None">>

\* Python truthiness of a text-or-None value.
Truthy(v) == v # None /\ v # <<>>

EmptyDict == [k \in {} |-> 0]

---------------------------------------------------------------------------
(* str methods *)

Uppers == <<"A","B","C","D","E","F","G","H","I","J","K","L","M",
            "N","O","P","Q","R","S","T","U","V","W","X","Y","Z">>
Lowers == <<"a","b","c","d","e","f","g","h","i","j","k","l","m",
            "n","o","p","q","r","s","t","u","v","w","x","y","z">>

LowerChar(c) ==
    IF \E k \in 1..26 : Uppers[k] = c
    THEN Lowers[CHOOSE k \in 1..26 : Uppers[k] = c]
    ELSE c

\* s.lower()
Lower(s) == [k \in 1..Len(s) |-> LowerChar(s[k])]

\* s.startswith(p)
StartsWith(s, p) == Len(p) <= Len(s) /\ SubSeq(s, 1, Len(p)) = p

\* sub in s
Contains(s, sub) ==
    \E k \in 0..(Len(s) - Len(sub)) : SubSeq(s, k + 1, k + Len(sub)) = sub

\* s.replace(old, ''), for a non-empty old: every non-overlapping occurrence
\* of old, found scanning from the left, is removed.
RECURSIVE Remove(_, _)
Remove(s, old) ==
    IF Len(s) < Len(old) THEN s
    ELSE IF StartsWith(s, old)
         THEN Remove(SubSeq(s, Len(old) + 1, Len(s)), old)
         ELSE <<Head(s)>> \o Remove(Tail(s), old)

\* s.lstrip(c)
RECURSIVE LStrip(_, _)
LStrip(s, c) == IF s # <<>> /\ Head(s) = c THEN LStrip(Tail(s), c) ELSE s

\* "%s-%s" % (a, b)
Fmt2(a, b) == a \o <<"-">> \o b

\* sep.join(bits)
RECURSIVE Join(_, _)
Join(sep, bits) ==
    IF bits = <<>> THEN <<>>
    ELSE IF Len(bits) = 1 THEN bits[1]
    ELSE bits[1] \o sep \o Join(sep, Tail(bits))

\* s.split(): the words of s between runs of spaces
RECURSIVE Split(_, _, _)
Split(s, word, acc) ==
    IF s = <<>> THEN (IF word = <<>> THEN acc ELSE Append(acc, word))
    ELSE IF Head(s) = " "
         THEN Split(Tail(s), <<>>, IF word = <<>> THEN acc ELSE Append(acc, word))
         ELSE Split(Tail(s), Append(word, Head(s)), acc)

Words(s) == Split(s, <<>>, <<>>)

---------------------------------------------------------------------------
(* Text constants of the source *)

T_president  == <<"p","r","e","s","i","d","e","n","t">>
T_us_senat   == <<"u",".","s","."," ","s","e","n","a","t">>
T_congress   == <<"c","o","n","g","r","e","s","s">>
T_state_senat == <<"s","t","a","t","e"," ","s","e","n","a","t">>
T_governor   == <<"g","o","v","e","r","n","o","r">>
T_other      == <<"o","t","h","e","r">>

President    == <<"P","r","e","s","i","d","e","n","t">>
USSenate     == <<"U",".","S","."," ","S","e","n","a","t","e">>
USHouse      == <<"U",".","S","."," ","H","o","u","s","e"," ","o","f"," ",
                  "R","e","p","r","e","s","e","n","t","a","t","i","v","e","s">>
StateSenate  == <<"S","t","a","t","e"," ","S","e","n","a","t","e">>
Governor     == <<"G","o","v","e","r","n","o","r">>
HouseOfDelegates == <<"H","o","u","s","e"," ","o","f"," ",
                      "D","e","l","e","g","a","t","e","s">>

OtherWriteIns == <<"O","t","h","e","r"," ","W","r","i","t","e","-","I","n","s">>
zz998        == <<"z","z","9","9","8">>
NullName     == <<"\\","N">>

OcdCounty    == <<"o","c","d","-","d","i","v","i","s","i","o","n","/",
                  "c","o","u","n","t","r","y",":","u","s","/",
                  "s","t","a","t","e",":","m","d","/",
                  "c","o","u","n","t","y",":">>
OcdSldl      == <<"o","c","d","-","d","i","v","i","s","i","o","n","/",
                  "c","o","u","n","t","r","y",":","u","s","/",
                  "s","t","a","t","e",":","m","d","/",
                  "s","l","d","l",":">>
OcdPrecinct  == <<"/","p","r","e","c","i","n","c","t",":">>

district_offices == {USHouse, StateSenate, HouseOfDelegates}

---------------------------------------------------------------------------
(* Field normalizer *)

_clean_office(office) ==
    LET lc_office == Lower(office) IN
    IF Contains(lc_office, T_president) THEN President
    ELSE IF Contains(lc_office, T_us_senat) THEN USSenate
    ELSE IF Contains(lc_office, T_congress) THEN USHouse
    ELSE IF Contains(lc_office, T_state_senat) THEN StateSenate
    ELSE IF Contains(lc_office, T_governor) THEN Governor
    ELSE office

_strip_leading_zeros(val) == LStrip(val, "0")


_clean_party_both == <<"B","o","t","h"," ","P","a","r","t","i","e","s">>
DEM == <<"D","E","M">>
REP == <<"R","E","P">>
UNF == <<"U","N","F">>
LIB == <<"L","I","B">>
GRN == <<"G","R","N">>

PARTY_MAP ==
    (<<"B","O","T">> :> UNF)
    @@ (<<"D","e","m","o","c","r","a","t","i","c">> :> DEM)
    @@ (<<"R","e","p","u","b","l","i","c","a","n">> :> REP)
    @@ (<<"L","i","b","e","r","t","a","r","i","a","n">> :> LIB)
    @@ (<<"G","r","e","e","n">> :> GRN)
    @@ (<<"U","n","a","f","f","i","l","i","a","t","e","d">> :> UNF)

_clean_party(party) ==
    IF party = _clean_party_both THEN None
    ELSE IF party \in DOMAIN PARTY_MAP THEN PARTY_MAP[party]
    ELSE party

---------------------------------------------------------------------------
(* Documents: a document is a function from field names to values.  A     *)
(* field a document does not hold reads as None.                           *)

Get(doc, k) == IF k \in DOMAIN doc THEN doc[k] ELSE None

Put(doc, k, v) == [x \in DOMAIN doc \cup {k} |-> IF x = k THEN v ELSE doc[x]]

Del(doc, k) == [x \in DOMAIN doc \ {k} |-> doc[x]]

\* Whether a stored document satisfies the query of objects.get(**query) or
\* objects.filter(**query): every queried field has the queried value.
Matches(doc, query) == \A k \in DOMAIN query : Get(doc, k) = query[k]

\* The ids (positions) of the documents of a collection that match a query.
Find(coll, query) == {n \in 1..Len(coll) : Matches(coll[n], query)}

\* objects.get(**query): the one matching document, else DoesNotExist or
\* MultipleObjectsReturned (named after the model).
ObjectsGet(coll, query, model) ==
    LET hits == Find(coll, query) IN
    IF hits = {} THEN [exc |-> model \o ".DoesNotExist", val |-> 0]
    ELSE IF Cardinality(hits) > 1
         THEN [exc |-> model \o ".MultipleObjectsReturned", val |-> 0]
         ELSE [exc |-> "", val |-> CHOOSE n \in hits : TRUE]

---------------------------------------------------------------------------
(* Reference data: the Office and Party collections, seeded elsewhere and  *)
(* only read here.                                                         *)

Offices == <<
    [state |-> "US", name |-> President],
    [state |-> "MD", name |-> Governor],
    [state |-> "MD", name |-> USSenate],
    [state |-> "MD", name |-> StateSenate, district |-> <<"8">>] >>

Parties == << [abbrev |-> DEM], [abbrev |-> REP], [abbrev |-> UNF] >>

\* Office.make_key(**office_query) and Office.key: the key fields in order.
OfficeKey(doc) == <<doc.state, doc.name, Get(doc, "district")>>

---------------------------------------------------------------------------
(* Reference resolver *)

\* The query _get_office builds for a raw result.
office_query(raw_result) ==
    LET name == _clean_office(raw_result.office)
        q0 == [state |-> IF name = President THEN "US" ELSE "MD", name |-> name]
    IN  IF name \in district_offices
        THEN Put(q0, "district", _strip_leading_zeros(raw_result.district))
        ELSE q0

\* The end of _get_office on a cache miss, given what Office.objects.get did.
OfficeFetched(query, got, oc) ==
    IF got.exc # "" THEN [exc |-> got.exc, val |-> 0, oc |-> oc]
    ELSE IF OfficeKey(query) # OfficeKey(Offices[got.val])
         THEN [exc |-> "AssertionError", val |-> 0, oc |-> oc]
         ELSE [exc |-> "", val |-> got.val, oc |-> oc @@ (OfficeKey(query) :> got.val)]

\* _get_office from its query on.
OfficeLookup(query, oc) ==
    IF OfficeKey(query) \in DOMAIN oc
    THEN [exc |-> "", val |-> oc[OfficeKey(query)], oc |-> oc]
    ELSE OfficeFetched(query, ObjectsGet(Offices, query, "Office"), oc)

\* exc is the exception raised, "" for none; val the Office's id; oc the
\* office_cache as the call leaves it.
_get_office(raw_result, oc) == OfficeLookup(office_query(raw_result), oc)

\* Party.DoesNotExist swallowed: an unknown party is no party.
PartyFetchedLenient(clean_abbrev, got, pcache) ==
    IF got.exc # "" THEN [exc |-> "", val |-> 0, pcache |-> pcache]
    ELSE [exc |-> "", val |-> got.val, pcache |-> pcache @@ (clean_abbrev :> got.val)]

\* The end of _get_party on a cache miss, given what Party.objects.get did.
PartyFetched(clean_abbrev, got, pcache) ==
    IF got.exc # "" THEN [exc |-> got.exc, val |-> 0, pcache |-> pcache]
    ELSE [exc |-> "", val |-> got.val, pcache |-> pcache @@ (clean_abbrev :> got.val)]

\* _get_party from the cleaned abbreviation on.
PartyLookup(clean_abbrev, pcache) ==
    IF ~Truthy(clean_abbrev) THEN [exc |-> "", val |-> 0, pcache |-> pcache]
    ELSE IF clean_abbrev \in DOMAIN pcache
         THEN [exc |-> "", val |-> pcache[clean_abbrev], pcache |-> pcache]
         ELSE PartyFetched(clean_abbrev,
                           ObjectsGet(Parties, [abbrev |-> clean_abbrev], "Party"),
                           pcache)

\* val is the Party's id, 0 for None; pcache the party_cache as the call
\* leaves it.
_get_party(raw_result, attr, pcache) ==
    IF ~Truthy(raw_result[attr]) THEN [exc |-> "", val |-> 0, pcache |-> pcache]
    ELSE PartyLookup(_clean_party(raw_result[attr]), pcache)

---------------------------------------------------------------------------
(* Raw results.  RawDocs lists the RawResult documents a run may find in   *)
(* the collection; raw holds their numbers.  Two entries of raw with the   *)
(* same number are two documents with equal fields.                        *)

\* The winner marker is a str in later files and an int in the 2002 file.
WinnerY == [type |-> "str", str |-> "Y"]

BaseDoc == [
    state |-> "MD", election_id |-> <<"e">>, source |-> "f1",
    start_date |-> <<2012, 11, 6>>, end_date |-> <<2012, 11, 6>>,
    election_type |-> "general", primary_type |-> <<>>,
    result_type |-> "certified", special |-> FALSE,
    office |-> President, district |-> <<>>,
    contest_slug |-> <<"p">>,
    full_name |-> <<"A","l"," ","G","o","r","e">>,
    given_name |-> None, family_name |-> None, additional_name |-> None,
    candidate_slug |-> <<"a","g">>,
    party |-> DEM, primary_party |-> <<>>,
    reporting_level |-> "county", jurisdiction |-> <<"2","4">>,
    county_ocd_id |-> None,
    votes |-> 10, total_votes |-> 30, vote_breakdowns |-> "{}",
    winner |-> WinnerY, write_in |-> "" ]

BoLee == <<"B","o"," ","L","e","e">>

RawDocs == <<
    \* 1: a presidential contest, by county
    BaseDoc,
    \* 2: the same contest, another candidate, by precinct
    [BaseDoc EXCEPT !.full_name = BoLee, !.candidate_slug = <<"b","l">>,
        !.party = REP, !.winner = [type |-> "str", str |-> "N"], !.reporting_level = "precinct",
        !.jurisdiction = <<"0","0","3">>, !.county_ocd_id = OcdCounty \o <<"2","4">>],
    \* 3: the same contest with a district in its slug, the write-ins
    [BaseDoc EXCEPT !.office = <<"P","r","e","s","i","d","e","n","t"," ","-"," ",
                                 "V","i","c","e"," ","P","r","e","s">>,
        !.district = <<"0","8">>, !.contest_slug = <<"p","-","0","8">>,
        !.full_name = OtherWriteIns, !.candidate_slug = <<"o","w">>,
        !.party = <<>>, !.winner = [type |-> "str", str |-> "N"], !.write_in = "Y"],
    \* 4: the governor's contest of the same election, the write-ins
    [BaseDoc EXCEPT !.office = Governor, !.contest_slug = <<"g">>,
        !.full_name = OtherWriteIns, !.candidate_slug = <<"o","w">>,
        !.party = <<>>, !.winner = [type |-> "str", str |-> "N"], !.write_in = "Y",
        !.reporting_level = "state_legislative", !.jurisdiction = <<"0","8">>],
    \* 5: another election whose id ends in "-1"
    [BaseDoc EXCEPT !.election_id = <<"e","-","1">>, !.election_type = "primary",
        !.primary_type = <<"c","l","o","s","e","d">>, !.primary_party = DEM,
        !.start_date = <<2012, 4, 3>>, !.end_date = <<2012, 4, 3>>],
    \* 6: a contest of election "e" whose slug starts with "1-"
    [BaseDoc EXCEPT !.office = <<"U",".","S","."," ","S","e","n","a","t","o","r">>,
        !.contest_slug = <<"1","-","p">>, !.full_name = BoLee,
        !.candidate_slug = <<"b","l">>, !.party = REP],
    \* 7: a 2002 state senate contest
    [BaseDoc EXCEPT !.election_id = <<"o">>,
        !.start_date = <<2002, 11, 5>>, !.end_date = <<2002, 11, 5>>,
        !.office = <<"S","t","a","t","e"," ","S","e","n","a","t","o","r">>,
        !.district = <<"0","8">>, !.contest_slug = <<"s","-","0","8">>,
        !.full_name = None, !.given_name = <<"A","l">>, !.family_name = <<"G","o","r","e">>,
        !.additional_name = NullName,
        !.party = <<"D","e","m","o","c","r","a","t","i","c">>, !.winner = [type |-> "int", int |-> 1]],
    \* 8: the same 2002 contest, the write-ins
    [BaseDoc EXCEPT !.election_id = <<"o">>,
        !.start_date = <<2002, 11, 5>>, !.end_date = <<2002, 11, 5>>,
        !.office = <<"S","t","a","t","e"," ","S","e","n","a","t","o","r">>,
        !.district = <<"0","8">>, !.contest_slug = <<"s","-","0","8">>,
        !.full_name = None, !.given_name = <<"z","z">>, !.family_name = zz998,
        !.additional_name = NullName, !.candidate_slug = <<"z","z">>,
        !.party = _clean_party_both, !.winner = [type |-> "int", int |-> 0]],
    \* 9: an office the Office collection does not hold
    [BaseDoc EXCEPT !.office = <<"S","h","e","r","i","f","f">>,
        !.contest_slug = <<"s","h">>],
    \* 10: a candidate's party the Party collection does not hold
    [BaseDoc EXCEPT !.full_name = <<"J","o"," ","M","o","t","h","e","r">>,
        !.candidate_slug = <<"j","m">>, !.party = <<"X","Y","Z">>],
    \* 11: a primary of a party the Party collection does not hold
    [BaseDoc EXCEPT !.election_id = <<"e","-","1">>, !.election_type = "primary",
        !.primary_type = <<"c","l","o","s","e","d">>, !.primary_party = <<"X","Y","Z">>,
        !.start_date = <<2012, 4, 3>>, !.end_date = <<2012, 4, 3>>,
        !.office = Governor, !.contest_slug = <<"g">>],
    \* 12: a result of the year 2000
    [BaseDoc EXCEPT !.election_id = <<"m">>,
        !.start_date = <<2000, 11, 7>>, !.end_date = <<2000, 11, 7>>],
    \* 13: the write-ins of the 2002 contest again, under another given name
    \* and candidate slug
    [BaseDoc EXCEPT !.election_id = <<"o">>,
        !.start_date = <<2002, 11, 5>>, !.end_date = <<2002, 11, 5>>,
        !.office = <<"S","t","a","t","e"," ","S","e","n","a","t","o","r">>,
        !.district = <<"0","8">>, !.contest_slug = <<"s","-","0","8">>,
        !.full_name = None, !.given_name = <<"w","i">>, !.family_name = zz998,
        !.additional_name = NullName, !.candidate_slug = <<"z","w">>,
        !.party = _clean_party_both, !.winner = [type |-> "int", int |-> 0]] >>

\* The RawResult document at position n of the collection.
RR(n) == RawDocs[raw[n]]

\* a >= b, for dates <<year, month, day>>
DateGE(a, b) ==
    \/ a[1] > b[1]
    \/ a[1] = b[1] /\ a[2] > b[2]
    \/ a[1] = b[1] /\ a[2] = b[2] /\ a[3] >= b[3]

\* The raw results of the state, whatever their date.
get_raw_results_any_date ==
    SelectSeq([n \in 1..Len(raw) |-> n], LAMBDA n : RR(n).state = "MD")

\* The positions, in order, of the raw results the transforms iterate.
get_raw_results_after_2000 ==
    SelectSeq([n \in 1..Len(raw) |-> n],
              LAMBDA n : RR(n).state = "MD" /\ DateGE(RR(n).end_date, <<2002, 1, 1>>))

Range(s) == {s[n] : n \in 1..Len(s)}

---------------------------------------------------------------------------
(* Lists of fields on RawResult that are contributed to the models *)

meta_fields == {"source", "election_id", "state"}
contest_fields == meta_fields \cup {"start_date", "end_date", "election_type",
    "primary_type", "result_type", "special"}
candidate_fields == meta_fields \cup {"full_name", "given_name", "family_name",
    "additional_name"}
result_fields == meta_fields \cup {"reporting_level", "jurisdiction", "votes",
    "total_votes", "vote_breakdowns"}

_get_fields(raw_result, field_names) == [k \in field_names |-> raw_result[k]]

---------------------------------------------------------------------------
(* Contests *)

\* The fields copied from the raw result, primary_type dropped when falsy.
ContestOwnFields(raw_result) ==
    IF ~Truthy(raw_result.primary_type)
    THEN _get_fields(raw_result, contest_fields \ {"primary_type"})
    ELSE _get_fields(raw_result, contest_fields)

\* get_contest_fields once the Office lookup returned: the Party lookup's
\* outcome decides.
ContestFieldsParty(fields, office, party) ==
    IF party.exc # ""
    THEN [exc |-> party.exc, fields |-> fields, oc |-> office.oc, pcache |-> party.pcache]
    ELSE [exc |-> "",
          fields |-> Put(Put(fields, "office", office.val), "primary_party", party.val),
          oc |-> office.oc, pcache |-> party.pcache]

ContestFieldsOffice(raw_result, fields, office, pcache) ==
    IF office.exc # ""
    THEN [exc |-> office.exc, fields |-> fields, oc |-> office.oc, pcache |-> pcache]
    ELSE ContestFieldsParty(fields, office, _get_party(raw_result, "primary_party", pcache))

\* exc is the exception raised, "" for none; the caches are returned as the
\* call leaves them.
get_contest_fields(raw_result, oc, pcache) ==
    ContestFieldsOffice(raw_result, ContestOwnFields(raw_result),
                        _get_office(raw_result, oc), pcache)

contest_key(raw_result) ==
    LET slug == raw_result.contest_slug IN
    IF _clean_office(raw_result.office) \notin district_offices
       /\ Truthy(raw_result.district)
    THEN <<raw_result.election_id,
           Remove(slug, <<"-">> \o Lower(raw_result.district))>>
    ELSE <<raw_result.election_id, slug>>

\* "%s-%s" % (raw_result.election_id, raw_result.contest_slug)
ContestCacheKey(raw_result) == Fmt2(raw_result.election_id, raw_result.contest_slug)

\* A Contest that is not found is None instead of an error.
ContestFetchedOrNone(key, f, got, ccache) ==
    IF got.exc = "Contest.DoesNotExist"
    THEN [exc |-> "", val |-> 0, cache |-> ccache @@ (key :> 0),
          oc |-> f.oc, pcache |-> f.pcache]
    ELSE IF got.exc # ""
    THEN [exc |-> got.exc, val |-> 0, cache |-> ccache, oc |-> f.oc, pcache |-> f.pcache]
    ELSE [exc |-> "", val |-> got.val, cache |-> ccache @@ (key :> got.val),
          oc |-> f.oc, pcache |-> f.pcache]

\* The end of cached_get_contest on a cache miss, given what
\* Contest.objects.get did.
ContestFetched(key, f, got, ccache) ==
    IF got.exc # ""
    THEN [exc |-> got.exc, val |-> 0, cache |-> ccache, oc |-> f.oc, pcache |-> f.pcache]
    ELSE [exc |-> "", val |-> got.val, cache |-> ccache @@ (key :> got.val),
          oc |-> f.oc, pcache |-> f.pcache]

\* The query of cached_get_contest: the contest fields without the source.
ContestQuery(fields) == Del(fields, "source")

\* cached_get_contest on a cache miss, given what get_contest_fields did.
ContestLookup(key, f, ccache) ==
    IF f.exc # ""
    THEN [exc |-> f.exc, val |-> 0, cache |-> ccache, oc |-> f.oc, pcache |-> f.pcache]
    ELSE ContestFetched(key, f, ObjectsGet(contests, ContestQuery(f.fields), "Contest"),
                        ccache)

\* contest_cache: the Contest of a raw result, looked up by its fields on
\* the first use of its key.
cached_get_contest(raw_result, ccache, oc, pcache) ==
    IF ContestCacheKey(raw_result) \in DOMAIN ccache
    THEN [exc |-> "", val |-> ccache[ContestCacheKey(raw_result)], cache |-> ccache,
          oc |-> oc, pcache |-> pcache]
    ELSE ContestLookup(ContestCacheKey(raw_result),
                       get_contest_fields(raw_result, oc, pcache), ccache)

---------------------------------------------------------------------------
(* Candidates *)

\* The parts of a name of the words w: the first word, the words between,
\* the last word.
NameParts(w) ==
    [first  |-> IF Len(w) >= 1 THEN w[1] ELSE <<>>,
     middle |-> IF Len(w) >= 3 THEN Join(<<" ">>, SubSeq(w, 2, Len(w) - 1)) ELSE <<>>,
     last   |-> IF Len(w) >= 2 THEN w[Len(w)] ELSE <<>>,
     suffix |-> <<>>]

\* nameparser's HumanName, for names of the shape "First [Middle ...] Last";
\* no title or suffix is split off.
HumanName(full_name) == NameParts(Words(full_name))

\* A join that keeps the additional name whatever it is.
LegacyFullNameAll(fields) ==
    Join(<<" ">>, <<fields["given_name"], fields["additional_name"],
                    fields["family_name"]>>)

\* ' '.join(bits) of the 2002 builder.
LegacyFullName(fields) ==
    IF fields["additional_name"] = NullName
    THEN Join(<<" ">>, <<fields["given_name"], fields["family_name"]>>)
    ELSE Join(<<" ">>, <<fields["given_name"], fields["additional_name"],
                         fields["family_name"]>>)

LegacyFields(fields) ==
    IF fields["family_name"] = zz998
    THEN [k \in DOMAIN fields \ {"family_name", "given_name", "additional_name"} |->
             IF k = "full_name" THEN OtherWriteIns ELSE fields[k]]
    ELSE IF fields["additional_name"] = NullName
         THEN Put(Del(fields, "additional_name"), "full_name", LegacyFullName(fields))
         ELSE Put(fields, "full_name", LegacyFullName(fields))

get_candidate_fields_2002(raw_result) ==
    LegacyFields(_get_fields(raw_result, candidate_fields))

ModernFields(fields, name) ==
    [k \in DOMAIN fields \cup {"suffix"} |->
        IF k = "given_name" THEN name.first
        ELSE IF k = "family_name" THEN name.last
        ELSE IF k = "additional_name" THEN name.middle
        ELSE IF k = "suffix" THEN name.suffix
        ELSE fields[k]]

get_candidate_fields_after_2000(raw_result) ==
    IF raw_result.full_name = OtherWriteIns
    THEN _get_fields(raw_result, candidate_fields)
    ELSE ModernFields(_get_fields(raw_result, candidate_fields),
                      HumanName(raw_result.full_name))

\* raw_result.end_date.year
Year(raw_result) == raw_result.end_date[1]

\* A dispatch that sends every year but 2002 to the later builder.
get_candidate_fields_any_year(raw_result) ==
    IF Year(raw_result) = 2002
    THEN [exc |-> "", fields |-> get_candidate_fields_2002(raw_result)]
    ELSE [exc |-> "", fields |-> get_candidate_fields_after_2000(raw_result)]

get_candidate_fields(raw_result) ==
    IF Year(raw_result) = 2002
    THEN [exc |-> "", fields |-> get_candidate_fields_2002(raw_result)]
    ELSE IF Year(raw_result) >= 2003
    THEN [exc |-> "", fields |-> get_candidate_fields_after_2000(raw_result)]
    ELSE [exc |-> "ValueError", fields |-> EmptyDict]

---------------------------------------------------------------------------
(* Results *)

_parse_winner(raw_result) ==
    IF raw_result.winner.type = "str" /\ raw_result.winner.str = "Y" THEN TRUE
    ELSE IF raw_result.winner.type = "int" /\ raw_result.winner.int = 1 THEN TRUE
    ELSE FALSE

\* Only the write-in marker counts.
_parse_write_in_marker(raw_result) == raw_result.write_in = "Y"

_parse_write_in(raw_result) ==
    IF raw_result.write_in = "Y" THEN TRUE
    ELSE IF raw_result.family_name = zz998 THEN TRUE
    ELSE FALSE

\* "%s" % v
Str(v) == IF v = None THEN <<"N","o","n","e">> ELSE v

\* What a function returns: a str, a tuple of values, or None.
PyStr(s) == [type |-> "str", str |-> s]
PyTuple(items) == [type |-> "tuple", items |-> items]
PyNone == [type |-> "NoneType"]

OcdId(raw_result, clean_jurisdiction) ==
    IF raw_result.reporting_level = "county"
    THEN PyTuple(<<PyStr(OcdCounty \o clean_jurisdiction)>>)
    ELSE IF raw_result.reporting_level = "state_legislative"
    THEN PyStr(OcdSldl \o clean_jurisdiction)
    ELSE IF raw_result.reporting_level = "precinct"
    THEN PyStr(Str(raw_result.county_ocd_id) \o OcdPrecinct \o clean_jurisdiction)
    ELSE PyNone

_get_ocd_id(raw_result) ==
    OcdId(raw_result, _strip_leading_zeros(raw_result.jurisdiction))

\* "%s-%s" % (raw_result.election_id, raw_result.candidate_slug)
CandidateCacheKey(raw_result) == Fmt2(raw_result.election_id, raw_result.candidate_slug)

\* The end of cached_get_candidate on a cache miss, given what
\* Candidate.objects.get did.
CandidateFetched(key, got, ccache) ==
    IF got.exc # "" THEN [exc |-> got.exc, val |-> 0, cache |-> ccache]
    ELSE [exc |-> "", val |-> got.val, cache |-> ccache @@ (key :> got.val)]

\* cached_get_candidate on a cache miss, given what get_candidate_fields did.
CandidateLookup(key, f, ccache) ==
    IF f.exc # "" THEN [exc |-> f.exc, val |-> 0, cache |-> ccache]
    ELSE CandidateFetched(key, ObjectsGet(candidates, f.fields, "Candidate"), ccache)

\* candidate_cache: the Candidate of a raw result, looked up by its fields on
\* the first use of its key.
cached_get_candidate(raw_result, ccache) ==
    IF CandidateCacheKey(raw_result) \in DOMAIN ccache
    THEN [exc |-> "", val |-> ccache[CandidateCacheKey(raw_result)], cache |-> ccache]
    ELSE CandidateLookup(CandidateCacheKey(raw_result),
                         get_candidate_fields(raw_result), ccache)

\* The Results of the first election in scope only.
get_results_first_election ==
    LET todo0 == get_raw_results_after_2000
        election_ids == IF todo0 = <<>> THEN {} ELSE {RR(todo0[1]).election_id}
    IN  {n \in 1..Len(results) : results[n]["election_id"] \in election_ids}

\* The positions in the Result collection of the Results in scope.
get_results_after_2000 ==
    LET election_ids == {RR(n).election_id : n \in Range(get_raw_results_after_2000)}
    IN  {n \in 1..Len(results) : results[n]["election_id"] \in election_ids}

---------------------------------------------------------------------------
(* Bounds *)

\* Longest RawResult collection.
MaxLen == 2

\* Most transforms started in one behaviour.
MaxRuns == 4

\* Longest RawResult collection of the runs that fill the Result buffer.
MaxBatchLen == 5

\* Number of Results inserted at once.  The source sets 1000; the model
\* scales it down so that collections of a few raw results fill the buffer.
bufsiz == 2

---------------------------------------------------------------------------
(* The transforms.  Each is started by the operator while none runs; one   *)
(* step is one iteration of its loop; an exception ends it.                *)

NoOutcome == [pass |-> "", exc |-> "", count |-> 0]

\* The locals of a transform that is not running.
Locals(t, s, b, c, n) ==
    /\ todo = t /\ seen = s /\ buf = b /\ cache = c /\ num_created = n

DropLocals ==
    /\ todo' = <<>> /\ seen' = {} /\ buf' = <<>> /\ cache' = EmptyDict
    /\ num_created' = 0

\* The exception exc leaves the running transform.
Raise(exc) ==
    /\ outcome' = [pass |-> pc, exc |-> exc, count |-> 0]
    /\ pc' = "idle"
    /\ DropLocals

\* The running transform returns, having printed count.
Return(count) ==
    /\ outcome' = [pass |-> pc, exc |-> "", count |-> count]
    /\ pc' = "idle"
    /\ DropLocals

Start(pass) ==
    /\ pc = "idle"
    /\ runs < MaxRuns
    /\ runs' = runs + 1
    /\ pc' = pass
    /\ todo' = get_raw_results_after_2000
    /\ seen' = {} /\ buf' = <<>> /\ cache' = EmptyDict
    /\ num_created' = 0
    /\ warnings' = <<>> /\ inserts' = <<>>
    /\ UNCHANGED <<raw, office_cache, party_cache, outcome, arg, ret>>

---------------------------------------------------------------------------
(* create_unique_contests_after_2000 *)

StartContests ==
    /\ Start("contests")
    /\ UNCHANGED <<contests, candidates, results>>

\* Contest(**fields), remembering the raw result it was built from.
NewContest(fields, n) == Put(fields, "origin", n)

\* No key is taken for seen.
ContestAlwaysNew(key) == TRUE

\* A key is new only if the collection holds no Contest of it either.
ContestNewToStore(key) ==
    /\ key \notin seen
    /\ \A c \in 1..Len(contests) : contest_key(RR(contests[c]["origin"])) # key

\* if key not in seen
ContestIsNew(key) == key \notin seen

\* The loop body for an unseen key, given what get_contest_fields did.
ContestsCreate(n, key, f) ==
    /\ office_cache' = f.oc
    /\ party_cache' = f.pcache
    /\ IF f.exc # ""
       THEN Raise(f.exc)
       ELSE /\ buf' = Append(buf, NewContest(f.fields, n))
            /\ seen' = seen \cup {key}
            /\ todo' = Tail(todo)
            /\ UNCHANGED <<cache, num_created, pc, outcome>>

ContestsStep ==
    /\ pc = "contests"
    /\ todo # <<>>
    /\ IF ~ContestIsNew(contest_key(RR(Head(todo))))
       THEN /\ todo' = Tail(todo)
            /\ UNCHANGED <<seen, buf, cache, num_created, pc, outcome,
                           office_cache, party_cache>>
       ELSE ContestsCreate(Head(todo), contest_key(RR(Head(todo))),
                           get_contest_fields(RR(Head(todo)), office_cache, party_cache))
    /\ UNCHANGED <<raw, contests, candidates, results, warnings, inserts, runs,
                   arg, ret>>

\* Contest.objects.insert(contests), then the count is printed.
ContestsFinish ==
    /\ pc = "contests"
    /\ todo = <<>>
    /\ contests' = contests \o buf
    /\ Return(Len(buf))
    /\ UNCHANGED <<raw, candidates, results, office_cache, party_cache, warnings,
                   inserts, runs, arg, ret>>

---------------------------------------------------------------------------
(* create_unique_candidates_after_2000 *)

StartCandidates ==
    /\ Start("candidates")
    /\ UNCHANGED <<contests, candidates, results>>

\* key = (rr.election_id, rr.candidate_slug)
candidate_key(raw_result) == <<raw_result.election_id, raw_result.candidate_slug>>

\* "other" in fields['full_name'].lower()
HasOther(full_name) == Contains(Lower(full_name), T_other)

\* A Candidate flagged whenever its name contains "other".
NewCandidateFlagOther(fields, contest, n) ==
    [k \in DOMAIN fields \cup {"contest", "origin"}
           \cup (IF HasOther(fields["full_name"]) THEN {"flags"} ELSE {}) |->
        IF k = "contest" THEN contest
        ELSE IF k = "origin" THEN n
        ELSE IF k = "flags" THEN <<"aggregate">>
        ELSE fields[k]]

\* Candidate(**fields) with its contest and flags, remembering the raw
\* result it was built from.
NewCandidate(fields, contest, n) ==
    [k \in DOMAIN fields \cup {"contest", "origin"}
           \cup (IF HasOther(fields["full_name"]) /\ fields["full_name"] = OtherWriteIns
                 THEN {"flags"} ELSE {}) |->
        IF k = "contest" THEN contest
        ELSE IF k = "origin" THEN n
        ELSE IF k = "flags" THEN <<"aggregate">>
        ELSE fields[k]]

\* The loop body for an unseen key once the fields are built, given what
\* cached_get_contest did.
CandidatesCreate(n, key, fields, c) ==
    /\ office_cache' = c.oc
    /\ party_cache' = c.pcache
    /\ IF c.exc # ""
       THEN Raise(c.exc) /\ UNCHANGED warnings
       ELSE /\ warnings' =
                 IF HasOther(fields["full_name"]) /\ fields["full_name"] # OtherWriteIns
                 THEN Append(warnings, RR(n).full_name)
                 ELSE warnings
            /\ buf' = Append(buf, NewCandidate(fields, c.val, n))
            /\ seen' = seen \cup {key}
            /\ cache' = c.cache
            /\ todo' = Tail(todo)
            /\ UNCHANGED <<num_created, pc, outcome>>

\* The loop body for an unseen key, given what get_candidate_fields did.
CandidatesBuild(n, key, f) ==
    IF f.exc # ""
    THEN /\ Raise(f.exc)
         /\ UNCHANGED <<warnings, office_cache, party_cache>>
    ELSE CandidatesCreate(n, key, f.fields,
             cached_get_contest(RR(n), cache, office_cache, party_cache))

CandidatesStep ==
    /\ pc = "candidates"
    /\ todo # <<>>
    /\ IF candidate_key(RR(Head(todo))) \in seen
       THEN /\ todo' = Tail(todo)
            /\ UNCHANGED <<seen, buf, cache, num_created, pc, outcome,
                           warnings, office_cache, party_cache>>
       ELSE CandidatesBuild(Head(todo), candidate_key(RR(Head(todo))),
                            get_candidate_fields(RR(Head(todo))))
    /\ UNCHANGED <<raw, contests, candidates, results, inserts, runs, arg, ret>>

\* Candidate.objects.insert(candidates), then the count is printed.
CandidatesFinish ==
    /\ pc = "candidates"
    /\ todo = <<>>
    /\ candidates' = candidates \o buf
    /\ Return(Len(buf))
    /\ UNCHANGED <<raw, contests, results, office_cache, party_cache, warnings,
                   inserts, runs, arg, ret>>

---------------------------------------------------------------------------
(* create_unique_results_after_2000 *)

\* The documents of a collection left when those at the positions gone are
\* deleted.
Delete(coll, gone) ==
    LET keep == SelectSeq([n \in 1..Len(coll) |-> n], LAMBDA n : n \notin gone)
    IN  [k \in 1..Len(keep) |-> coll[keep[k]]]

\* The transform starts by deleting the Results of the elections in scope.
StartResults ==
    /\ Start("results")
    /\ results' = Delete(results, get_results_after_2000)
    /\ UNCHANGED <<contests, candidates>>

\* The most recently stored Contest, whatever the Candidate.
ResultContestLatest(candidate) == Len(contests)

\* fields['contest'] = fields['candidate'].contest
ResultContest(candidate) == candidates[candidate]["contest"]

\* Result(**fields) of the raw result at position n, its Candidate and its
\* Party (0 for None) resolved.
NewResult(n, candidate, party) ==
    [k \in result_fields
           \cup {"candidate", "contest", "raw_result", "winner", "write_in", "ocd_id"}
           \cup (IF party # 0 THEN {"party"} ELSE {}) |->
        IF k = "candidate" THEN candidate
        ELSE IF k = "contest" THEN ResultContest(candidate)
        ELSE IF k = "raw_result" THEN n
        ELSE IF k = "party" THEN Parties[party].abbrev
        ELSE IF k = "winner" THEN _parse_winner(RR(n))
        ELSE IF k = "write_in" THEN _parse_write_in(RR(n))
        ELSE IF k = "jurisdiction" THEN _strip_leading_zeros(RR(n).jurisdiction)
        ELSE IF k = "ocd_id" THEN _get_ocd_id(RR(n))
        ELSE RR(n)[k]]

\* The end of the loop body: the buffer, with the new Result, is inserted
\* when it is full.
ResultsAppend(full) ==
    /\ todo' = Tail(todo)
    /\ IF Len(full) >= bufsiz
       THEN /\ results' = results \o full
            /\ num_created' = num_created + Len(full)
            /\ inserts' = Append(inserts, Len(full))
            /\ buf' = <<>>
       ELSE /\ buf' = full
            /\ UNCHANGED <<results, num_created, inserts>>
    /\ UNCHANGED <<seen, pc, outcome>>

\* The loop body once the Candidate is resolved, given what _get_party did.
ResultsParty(n, c, party) ==
    /\ party_cache' = party.pcache
    /\ IF party.exc # ""
       THEN Raise(party.exc) /\ UNCHANGED <<results, inserts>>
       ELSE /\ cache' = c.cache
            /\ ResultsAppend(Append(buf, NewResult(n, c.val, party.val)))

\* The loop body, given what cached_get_candidate did.
ResultsResolve(n, c) ==
    IF c.exc # ""
    THEN Raise(c.exc) /\ UNCHANGED <<results, party_cache, inserts>>
    ELSE ResultsParty(n, c, _get_party(RR(n), "party", party_cache))

ResultsStep ==
    /\ pc = "results"
    /\ todo # <<>>
    /\ ResultsResolve(Head(todo), cached_get_candidate(RR(Head(todo)), cache))
    /\ UNCHANGED <<raw, contests, candidates, office_cache, warnings, runs, arg, ret>>

\* A last insert only of a full buffer.
HasFullRemainder(n) == n >= bufsiz

\* A last insert whatever the buffer holds.
HasRemainderAlways(n) == TRUE

\* if len(results): whether n buffered Results are inserted after the loop.
HasRemainder(n) == n # 0

\* The rest of the buffer is inserted, then the count is printed.
ResultsFinish ==
    /\ pc = "results"
    /\ todo = <<>>
    /\ IF HasRemainder(Len(buf))
       THEN /\ results' = results \o buf
            /\ inserts' = Append(inserts, Len(buf))
            /\ Return(num_created + Len(buf))
       ELSE /\ UNCHANGED <<results, inserts>>
            /\ Return(num_created)
    /\ UNCHANGED <<raw, contests, candidates, office_cache, party_cache, warnings,
                   runs, arg, ret>>

---------------------------------------------------------------------------
(* Functions applied on their own *)

NotCalled == <<>>

KeyOffices == {
    President,
    <<"P","R","E","S","I","D","E","N","T">>,
    Governor,
    <<"S","t","a","t","e"," ","S","e","n","a","t","o","r">>,
    HouseOfDelegates }

KeyDistricts == { <<>>, None, <<"0","8">>, <<"2">>, <<"8","A">> }

KeySlugs == {
    <<"2","0","0","0","-","p","r","e","s","i","d","e","n","t","-","0","8">>,
    <<"2","0","0","0","-","p","r","e","s","i","d","e","n","t">>,
    <<"m","d","-","2","0","0","0","-","p","r","e","s","i","d","e","n","t","-","2">>,
    <<"p","r","e","s","i","d","e","n","t","-","8","a">>,
    <<"s","-","2">> }

OcdLevels == {"county", "precinct", "state_legislative", "state"}

OcdJurisdictions == { <<"2","4">>, <<"0","0","3">>, <<"0","0","0">>, <<"0","8","0">> }

OcdCounties == { OcdCounty \o <<"2","4">>, <<"X">>, None }

NameYears == {2000, 2001, 2002, 2003, 2012}

FullNames == { <<"A","l"," ","G","o","r","e">>,
               <<"A","l"," ","B"," ","G","o","r","e">>,
               OtherWriteIns }

AdditionalNames == { NullName, <<"B">>, <<>> }

FamilyNames == { <<"G","o","r","e">>, zz998 }

\* Raw results that differ in the year and in the candidate's names.
NameDocs ==
    {[BaseDoc EXCEPT !.end_date = <<y, 11, 5>>, !.full_name = fn,
                     !.given_name = <<"A","l">>, !.additional_name = an,
                     !.family_name = fam] :
        y \in NameYears, fn \in FullNames, an \in AdditionalNames, fam \in FamilyNames}

Calls ==
    {[fn |-> "get_candidate_fields", rr |-> d] : d \in NameDocs}
    \cup
    {[fn |-> "get_candidate_fields_2002", rr |-> d] : d \in {e \in NameDocs : Year(e) = 2002}}
    \cup
    {[fn |-> "contest_key",
      rr |-> [BaseDoc EXCEPT !.office = o, !.district = d, !.contest_slug = sl]] :
        o \in KeyOffices, d \in KeyDistricts, sl \in KeySlugs}
    \cup
    {[fn |-> "_get_ocd_id",
      rr |-> [BaseDoc EXCEPT !.reporting_level = l, !.jurisdiction = j,
                             !.county_ocd_id = c]] :
        l \in OcdLevels, j \in OcdJurisdictions, c \in OcdCounties}

ApplyContestKey ==
    /\ arg # NotCalled /\ ret = NotCalled
    /\ arg.fn = "contest_key"
    /\ ret' = contest_key(arg.rr)
    /\ UNCHANGED <<raw, contests, candidates, results, office_cache, party_cache, pc,
                   todo, seen, buf, cache, num_created, inserts, outcome, warnings,
                   runs, arg>>

ApplyOcdId ==
    /\ arg # NotCalled /\ ret = NotCalled
    /\ arg.fn = "_get_ocd_id"
    /\ ret' = _get_ocd_id(arg.rr)
    /\ UNCHANGED <<raw, contests, candidates, results, office_cache, party_cache, pc,
                   todo, seen, buf, cache, num_created, inserts, outcome, warnings,
                   runs, arg>>

ApplyCandidateFields ==
    /\ arg # NotCalled /\ ret = NotCalled
    /\ arg.fn = "get_candidate_fields"
    /\ ret' = get_candidate_fields(arg.rr)
    /\ UNCHANGED <<raw, contests, candidates, results, office_cache, party_cache, pc,
                   todo, seen, buf, cache, num_created, inserts, outcome, warnings,
                   runs, arg>>

ApplyCandidateFields2002 ==
    /\ arg # NotCalled /\ ret = NotCalled
    /\ arg.fn = "get_candidate_fields_2002"
    /\ ret' = get_candidate_fields_2002(arg.rr)
    /\ UNCHANGED <<raw, contests, candidates, results, office_cache, party_cache, pc,
                   todo, seen, buf, cache, num_created, inserts, outcome, warnings,
                   runs, arg>>

---------------------------------------------------------------------------
(* Specifications *)

Seqs(S, n) == UNION {[1..k -> S] : k \in 0..n}

InitStores ==
    /\ contests = <<>> /\ candidates = <<>> /\ results = <<>>
    /\ office_cache = EmptyDict /\ party_cache = EmptyDict
    /\ pc = "idle"
    /\ Locals(<<>>, {}, <<>>, EmptyDict, 0)
    /\ inserts = <<>>
    /\ outcome = NoOutcome
    /\ warnings = <<>>
    /\ runs = 0

Init ==
    /\ raw \in Seqs(1..Len(RawDocs), MaxLen)
    /\ InitStores
    /\ arg = NotCalled /\ ret = NotCalled

\* Longer collections of two raw results of two elections, one of each era.
BatchDocs == {1, 7}

InitBatch ==
    /\ raw \in Seqs(BatchDocs, MaxBatchLen)
    /\ InitStores
    /\ arg = NotCalled /\ ret = NotCalled

InitApply ==
    /\ raw = <<>>
    /\ InitStores
    /\ arg \in Calls /\ ret = NotCalled

Next ==
    \/ StartContests
    \/ ContestsStep
    \/ ContestsFinish
    \/ StartCandidates
    \/ CandidatesStep
    \/ CandidatesFinish
    \/ StartResults
    \/ ResultsStep
    \/ ResultsFinish

Spec == Init /\ [][Next]_vars

SpecBatch == InitBatch /\ [][Next]_vars

NextApply ==
    \/ ApplyContestKey
    \/ ApplyOcdId
    \/ ApplyCandidateFields
    \/ ApplyCandidateFields2002

SpecApply == InitApply /\ [][NextApply]_vars

---------------------------------------------------------------------------
(* Properties *)

\* The raw results in scope, and the dedup keys that occur among them.
Filtered == Range(get_raw_results_after_2000)
StreamContestKeys == {contest_key(RR(n)) : n \in Filtered}
StreamCandidateKeys == {candidate_key(RR(n)) : n \in Filtered}

\* The dedup key of a stored Contest or Candidate: that of the raw result it
\* was built from.
ContestKeyOf(c) == contest_key(RR(contests[c]["origin"]))
CandidateKeyOf(k) == candidate_key(RR(candidates[k]["origin"]))

ContestsOfKey(key) == {c \in 1..Len(contests) : ContestKeyOf(c) = key}
CandidatesOfKey(key) == {k \in 1..Len(candidates) : CandidateKeyOf(k) = key}

\* The Results of the elections of the raw results in scope.
ResultsInScope ==
    {r \in 1..Len(results) :
        \E n \in Filtered : results[r]["election_id"] = RR(n).election_id}

\* The last transform was pass and it returned.
Done(pass) == pc = "idle" /\ outcome.pass = pass /\ outcome.exc = ""

\* C1: once create_unique_contests_after_2000 has returned from its first run
\* on an empty Contest collection, the collection holds exactly one Contest
\* for each contest_key that occurs among the raw results in scope, and no
\* other Contest.
C1_OneContestPerKey ==
    (Done("contests") /\ runs = 1) =>
        /\ \A key \in StreamContestKeys : Cardinality(ContestsOfKey(key)) = 1
        /\ \A c \in 1..Len(contests) :
              /\ ContestKeyOf(c) \in StreamContestKeys
              /\ contests[c]["election_id"] = ContestKeyOf(c)[1]
        /\ Len(contests) = Cardinality(StreamContestKeys)

\* Two raw results whose slugs differ share one corrected key and one Contest.
C1_Witness ==
    /\ Done("contests") /\ runs = 1
    /\ Len(raw) = 2 /\ Filtered = {1, 2}
    /\ RR(1).contest_slug # RR(2).contest_slug
    /\ Len(contests) = 1

\* C2: every stored Candidate's contest is the Contest of the contest_key of
\* the raw result the Candidate was built from.
C2_CandidateContest ==
    \A k \in 1..Len(candidates) :
        /\ candidates[k]["contest"] \in 1..Len(contests)
        /\ ContestKeyOf(candidates[k]["contest"])
             = contest_key(RR(candidates[k]["origin"]))

\* C3: every stored Result's contest is the contest of its Candidate.
C3_ResultContest ==
    \A r \in 1..Len(results) :
        results[r]["contest"] = candidates[results[r]["candidate"]]["contest"]

\* A Result is stored whose Candidate belongs to another Contest than the
\* one of the Result's own raw result.
C3_Witness ==
    \E r \in 1..Len(results) :
        ContestKeyOf(results[r]["contest"]) # contest_key(RR(results[r]["raw_result"]))

\* C4: once create_unique_results_after_2000 has returned, every raw result
\* in scope is the raw_result of exactly one stored Result, and the Results
\* in scope are as many as the raw results in scope.
C4_OneResultPerRawResult ==
    Done("results") =>
        /\ \A n \in Filtered :
              Cardinality({r \in 1..Len(results) : results[r]["raw_result"] = n}) = 1
        /\ Cardinality(ResultsInScope) = Cardinality(Filtered)

\* A run over more raw results than two full buffers hold.
C4_Witness ==
    /\ Done("results")
    /\ Cardinality(Filtered) > 2 * bufsiz
    /\ Len(results) = Cardinality(Filtered)
    /\ Len(inserts) = 3

\* C5: the start of create_unique_results_after_2000 leaves no Result in
\* scope; every run that returns leaves as many Results in scope as it
\* printed; and a run started right after one that returned returns too,
\* printing the same count.
C5_RerunReplaces ==
    [][ /\ (pc = "idle" /\ pc' = "results") => ResultsInScope' = {}
        /\ (pc = "results" /\ pc' = "idle" /\ outcome'.exc = "") =>
              Cardinality(ResultsInScope') = outcome'.count
        /\ (pc = "results" /\ pc' = "idle"
             /\ outcome.pass = "results" /\ outcome.exc = "") =>
              (outcome'.exc = "" /\ outcome'.count = outcome.count)
      ]_vars

\* A second run in a row has stored its Results, the first having printed 2.
C5_Witness ==
    /\ pc = "results" /\ todo = <<>> /\ buf = <<>>
    /\ outcome = [pass |-> "results", exc |-> "", count |-> 2]
    /\ Len(results) = 2

\* Whether a is the beginning of b.
IsPrefix(a, b) == Len(a) <= Len(b) /\ SubSeq(b, 1, Len(a)) = a

\* The documents a step appends to a collection.
Added(before, after) == SubSeq(after, Len(before) + 1, Len(after))

\* C6: a run of create_unique_contests_after_2000 that returns appends one
\* Contest for every contest_key among the raw results in scope, whatever
\* the collection already holds, and a run of
\* create_unique_candidates_after_2000 that returns appends one Candidate for
\* every candidate key: a rerun doubles the entities of each key.
C6_RerunDuplicates ==
    [][ /\ (pc = "contests" /\ pc' = "idle" /\ outcome'.exc = "") =>
              /\ IsPrefix(contests, contests')
              /\ Len(contests') = Len(contests) + Cardinality(StreamContestKeys)
              /\ {contest_key(RR(d["origin"])) : d \in Range(Added(contests, contests'))}
                    = StreamContestKeys
        /\ (pc = "candidates" /\ pc' = "idle" /\ outcome'.exc = "") =>
              /\ IsPrefix(candidates, candidates')
              /\ Len(candidates') = Len(candidates) + Cardinality(StreamCandidateKeys)
              /\ {candidate_key(RR(d["origin"])) : d \in Range(Added(candidates, candidates'))}
                    = StreamCandidateKeys
      ]_vars

\* Two Contests of one key and two Candidates of one key are stored.
C6_Witness ==
    /\ \E key \in StreamContestKeys : Cardinality(ContestsOfKey(key)) > 1
    /\ \E key \in StreamCandidateKeys : Cardinality(CandidatesOfKey(key)) > 1

\* What a lookup of the running transform would find for a raw result: no
\* cached entry and no stored document.
OfficeMiss(rr) ==
    /\ OfficeKey(office_query(rr)) \notin DOMAIN office_cache
    /\ Find(Offices, office_query(rr)) = {}

PartyMiss(rr, attr) ==
    /\ Truthy(rr[attr])
    /\ Truthy(_clean_party(rr[attr]))
    /\ _clean_party(rr[attr]) \notin DOMAIN party_cache
    /\ Find(Parties, [abbrev |-> _clean_party(rr[attr])]) = {}

ContestMiss(rr) ==
    /\ ContestCacheKey(rr) \notin DOMAIN cache
    /\ \/ OfficeMiss(rr)
       \/ PartyMiss(rr, "primary_party")
       \/ Find(contests,
               ContestQuery(get_contest_fields(rr, office_cache, party_cache).fields)) = {}

CandidateMiss(rr) ==
    /\ CandidateCacheKey(rr) \notin DOMAIN cache
    /\ Year(rr) >= 2002
    /\ Find(candidates, get_candidate_fields(rr).fields) = {}

\* The step ends the running transform with an exception.
Aborts == pc' = "idle" /\ outcome'.pass = pc /\ outcome'.exc # "" /\ todo' = <<>>

\* C7: a lookup that finds nothing ends the transform at that raw result:
\* an Office or Party miss in create_unique_contests_after_2000, an Office,
\* Party or Contest miss in create_unique_candidates_after_2000, a Candidate
\* or Party miss in create_unique_results_after_2000; the step stores
\* nothing, and the first two transforms leave their collection untouched
\* unless they return.
C7_MissIsFatal ==
    [][ /\ (pc = "contests" /\ todo # <<>>
             /\ contest_key(RR(Head(todo))) \notin seen
             /\ (OfficeMiss(RR(Head(todo))) \/ PartyMiss(RR(Head(todo)), "primary_party")))
           => Aborts
        /\ (pc = "candidates" /\ todo # <<>>
             /\ candidate_key(RR(Head(todo))) \notin seen
             /\ ContestMiss(RR(Head(todo))))
           => Aborts
        /\ (pc = "results" /\ todo # <<>>
             /\ (CandidateMiss(RR(Head(todo))) \/ PartyMiss(RR(Head(todo)), "party")))
           => (Aborts /\ results' = results)
        /\ (pc = "contests" /\ ~(pc' = "idle" /\ outcome'.exc = ""))
           => contests' = contests
        /\ (pc = "candidates" /\ ~(pc' = "idle" /\ outcome'.exc = ""))
           => candidates' = candidates
      ]_vars

\* create_unique_results_after_2000 stopped at the second raw result, whose
\* party is unknown, after both other transforms returned.
C7_Witness ==
    /\ pc = "idle"
    /\ outcome = [pass |-> "results", exc |-> "Party.DoesNotExist", count |-> 0]
    /\ Len(raw) = 2 /\ PartyMiss(RR(2), "party") /\ ~PartyMiss(RR(1), "party")
    /\ Len(contests) = 1 /\ Len(candidates) = 2 /\ results = <<>>

\* The Candidates and Results stored or about to be stored.
CandidatesMade == Range(candidates) \cup (IF pc = "candidates" THEN Range(buf) ELSE {})
ResultsMade == Range(results) \cup (IF pc = "results" THEN Range(buf) ELSE {})

\* C8: every Candidate stored or buffered references a stored Contest, every
\* Result stored or buffered references a stored Candidate and a stored
\* Contest, and no Contest or Candidate is ever removed or replaced.
C8_ReferentialOrder ==
    /\ [](/\ \A d \in CandidatesMade : d["contest"] \in 1..Len(contests)
          /\ \A d \in ResultsMade :
                /\ d["candidate"] \in 1..Len(candidates)
                /\ d["contest"] \in 1..Len(contests))
    /\ [][IsPrefix(contests, contests') /\ IsPrefix(candidates, candidates')]_vars

\* Results of two Candidates of one Contest are stored.
C8_Witness ==
    /\ Len(contests) = 1 /\ Len(candidates) = 2 /\ Len(results) = 2
    /\ results[1]["candidate"] # results[2]["candidate"]

---------------------------------------------------------------------------
(* Properties of the functions applied on their own *)

\* The geographic id the levels are documented to give.
OcdExpected(rr) ==
    IF rr.reporting_level = "county"
    THEN PyStr(OcdCounty \o _strip_leading_zeros(rr.jurisdiction))
    ELSE IF rr.reporting_level = "state_legislative"
    THEN PyStr(OcdSldl \o _strip_leading_zeros(rr.jurisdiction))
    ELSE IF rr.reporting_level = "precinct"
    THEN PyStr(Str(rr.county_ocd_id) \o OcdPrecinct \o _strip_leading_zeros(rr.jurisdiction))
    ELSE PyNone

\* C9: _get_ocd_id returns a str or None: the county, state-legislative or
\* precinct id of the raw result's level, built from the jurisdiction without
\* its leading zeros, and None for any other level.
C9_OcdId ==
    (arg # NotCalled /\ arg.fn = "_get_ocd_id" /\ ret # NotCalled) =>
        /\ ret.type \in {"str", "NoneType"}
        /\ ret = OcdExpected(arg.rr)

\* s.lower().endswith(suffix.lower())
EndsWithCI(s, suffix) ==
    /\ Len(suffix) <= Len(s)
    /\ Lower(SubSeq(s, Len(s) - Len(suffix) + 1, Len(s))) = Lower(suffix)

\* The slug without a trailing "-{district}", matched whatever the case.
StripTrailing(slug, district) ==
    IF EndsWithCI(slug, <<"-">> \o district)
    THEN SubSeq(slug, 1, Len(slug) - Len(district) - 1)
    ELSE slug

\* C10: contest_key returns (election_id, contest_slug) when the cleaned
\* office is a district office or the district is empty, and otherwise the
\* slug without a trailing "-{district}", the rest of the slug intact.
C10_ContestKey ==
    (arg # NotCalled /\ arg.fn = "contest_key" /\ ret # NotCalled) =>
        ret = IF _clean_office(arg.rr.office) \in district_offices
                 \/ ~Truthy(arg.rr.district)
              THEN <<arg.rr.election_id, arg.rr.contest_slug>>
              ELSE <<arg.rr.election_id,
                     StripTrailing(arg.rr.contest_slug, arg.rr.district)>>

\* C11: get_candidate_fields returns the fields of the 2002 builder for a
\* raw result whose end date is in 2002 and those of the later builder for
\* one of 2003 or later, and raises for any other year, returning no fields.
C11_EraDispatch ==
    (arg # NotCalled /\ arg.fn = "get_candidate_fields" /\ ret # NotCalled) =>
        IF arg.rr.end_date[1] = 2002
        THEN /\ ret = [exc |-> "", fields |-> get_candidate_fields_2002(arg.rr)]
             /\ "suffix" \notin DOMAIN ret.fields
        ELSE IF arg.rr.end_date[1] >= 2003
        THEN /\ ret = [exc |-> "", fields |-> get_candidate_fields_after_2000(arg.rr)]
             /\ arg.rr.full_name # OtherWriteIns => "suffix" \in DOMAIN ret.fields
        ELSE ret = [exc |-> "ValueError", fields |-> EmptyDict]

\* The function raised for a raw result of 2001.
C11_Witness ==
    /\ arg # NotCalled /\ arg.fn = "get_candidate_fields"
    /\ arg.rr.end_date[1] = 2001
    /\ ret # NotCalled /\ ret.exc = "ValueError"

\* C13: get_candidate_fields_2002 gives a raw result whose family name is
\* "zz998" the full name "Other Write-Ins" and no given, family or
\* additional name; any other raw result gets as full name its given,
\* additional and family name joined by spaces, without the additional name
\* when that is "\N".
C13_LegacyBuilder ==
    (arg # NotCalled /\ arg.fn = "get_candidate_fields_2002" /\ ret # NotCalled) =>
        IF arg.rr.family_name = zz998
        THEN /\ ret["full_name"] = OtherWriteIns
             /\ DOMAIN ret \cap {"given_name", "family_name", "additional_name"} = {}
        ELSE ret["full_name"] =
                IF arg.rr.additional_name = NullName
                THEN arg.rr.given_name \o <<" ">> \o arg.rr.family_name
                ELSE arg.rr.given_name \o <<" ">> \o arg.rr.additional_name
                        \o <<" ">> \o arg.rr.family_name

\* The builder was applied to a write-in of 2002 whose given name is set.
C13_Witness ==
    /\ arg # NotCalled /\ arg.fn = "get_candidate_fields_2002"
    /\ arg.rr.family_name = zz998 /\ arg.rr.given_name # None
    /\ ret # NotCalled /\ ret["full_name"] = OtherWriteIns

\* C12 as stated: the write_in of a Result is true exactly when the write-in
\* marker of its raw result is "Y" or the family name of its Candidate is
\* "zz998".
C12_WriteInByCandidate ==
    \A d \in ResultsMade :
        d["write_in"] = (\/ RR(d["raw_result"]).write_in = "Y"
                         \/ Get(candidates[d["candidate"]], "family_name") = zz998)

\* C12: the write_in of a Result is true exactly when the write-in marker of
\* its raw result is "Y" or the family name of its raw result is "zz998".
C12_WriteInByRawResult ==
    \A d \in ResultsMade :
        d["write_in"] = (\/ RR(d["raw_result"]).write_in = "Y"
                         \/ RR(d["raw_result"]).family_name = zz998)

\* A Result of a 2002 write-in is stored: its raw result has the family name
\* "zz998", its Candidate has none.
C12_Witness ==
    \E r \in 1..Len(results) :
        /\ results[r]["write_in"]
        /\ RR(results[r]["raw_result"]).write_in # "Y"
        /\ RR(results[r]["raw_result"]).family_name = zz998
        /\ "family_name" \notin DOMAIN candidates[results[r]["candidate"]]

\* The full name create_unique_candidates_after_2000 builds for the raw
\* result it is at.
HeadFullName == get_candidate_fields(RR(Head(todo))).fields["full_name"]

\* The name contains "other" in any case without being "Other Write-Ins".
OtherButNotAggregate(full_name) ==
    Contains(Lower(full_name), T_other) /\ full_name # OtherWriteIns

\* C14: a Candidate carries the flag "aggregate" exactly when its full name
\* is "Other Write-Ins"; for a new key whose name contains "other" without
\* being that label the step logs one warning, buffers the Candidate without
\* flags and goes on to the next raw result, unless the step raises; no
\* other step logs a warning.
C14_AggregateFlag ==
    /\ [](\A d \in CandidatesMade :
            /\ ("flags" \in DOMAIN d) <=> (d["full_name"] = OtherWriteIns)
            /\ "flags" \in DOMAIN d => d["flags"] = <<"aggregate">>)
    /\ [][ (pc = "candidates" /\ pc' = "candidates" /\ todo # <<>>) =>
             IF /\ candidate_key(RR(Head(todo))) \notin seen
                /\ OtherButNotAggregate(HeadFullName)
             THEN /\ Len(warnings') = Len(warnings) + 1
                  /\ IsPrefix(warnings, warnings')
                  /\ Len(buf') = Len(buf) + 1
                  /\ IsPrefix(buf, buf')
                  /\ buf'[Len(buf')]["full_name"] = HeadFullName
                  /\ "flags" \notin DOMAIN buf'[Len(buf')]
                  /\ todo' = Tail(todo)
             ELSE warnings' = warnings
         ]_vars

\* A Candidate whose name contains "other" was buffered without flags, with
\* a warning, and after it the aggregate Candidate of the write-ins.
C14_Witness ==
    /\ pc = "candidates" /\ Len(buf) = 2 /\ Len(warnings) = 1
    /\ OtherButNotAggregate(buf[1]["full_name"]) /\ "flags" \notin DOMAIN buf[1]
    /\ buf[2]["full_name"] = OtherWriteIns /\ buf[2]["flags"] = <<"aggregate">>

\* The sum of a sequence of numbers.
RECURSIVE Sum(_)
Sum(q) == IF q = <<>> THEN 0 ELSE Head(q) + Sum(Tail(q))

C16_ResultContestOfOwnRawResult ==
    \A d \in ResultsMade :
        /\ d["contest"] \in 1..Len(contests)
        /\ ContestKeyOf(d["contest"]) = contest_key(RR(d["raw_result"]))

\* What Contest.objects.get gives for the contest fields of a raw result,
\* without contest_cache.
UncachedContest(rr) ==
    ContestLookup(ContestCacheKey(rr),
                  get_contest_fields(rr, office_cache, party_cache), EmptyDict)

\* C17: the contest of every Candidate create_unique_candidates_after_2000
\* has buffered is the Contest that Contest.objects.get finds for the
\* contest fields of the Candidate's raw result.
C17_ContestCacheTransparent ==
    pc = "candidates" =>
        \A d \in Range(buf) :
            /\ UncachedContest(RR(d["origin"])).exc = ""
            /\ UncachedContest(RR(d["origin"])).val = d["contest"]

\* create_unique_results_after_2000 has ended, returning or raising, as the
\* third transform, after create_unique_contests_after_2000 and
\* create_unique_candidates_after_2000 each ran once and returned.
ThirdAfterBoth ==
    /\ pc = "idle" /\ outcome.pass = "results" /\ runs = 3
    /\ candidates # <<>>

\* C18: when create_unique_results_after_2000 runs after the two other
\* transforms returned on empty collections, it does not end with
\* Candidate.DoesNotExist or Candidate.MultipleObjectsReturned.
C18_CandidateLookupsSucceed ==
    ThirdAfterBoth =>
        outcome.exc \notin {"Candidate.DoesNotExist", "Candidate.MultipleObjectsReturned"}

\* C19: neither create_unique_candidates_after_2000 nor
\* create_unique_results_after_2000 ends with the ValueError of
\* get_candidate_fields, and no raw result they are about to handle is of a
\* year before 2002.
C19_NoUnsupportedEra ==
    /\ outcome.exc # "ValueError"
    /\ \A n \in Range(todo) : Year(RR(n)) = 2002 \/ Year(RR(n)) >= 2003

\* create_unique_results_after_2000 returned for a collection that holds a
\* raw result of 2000 and a later one.
C19_Witness ==
    /\ Done("results") /\ Len(results) = 1 /\ Len(raw) = 2
    /\ \E n \in 1..Len(raw) : Year(RR(n)) < 2002

=============================================================================
